---- MODULE Spec2Model ----
(***************************************************************************)
(* Model of the notebook translator (nb-translate-commit).                 *)
(*                                                                         *)
(* The workflow of workflow.py is a graph of five nodes driven by the      *)
(* graph framework: load_and_parse_notebook, process_markdown_cell,        *)
(* process_code_cell, skip_unsupported_cell, rebuild_notebook; after every *)
(* node but the last the conditional edge route_cell_processing picks the  *)
(* next node.  The variables below are the fields of AgentState as the     *)
(* graph holds them between steps, the files on disk, and the position of  *)
(* the run.                                                                *)
(*                                                                         *)
(* Text is a sequence of character tokens.  A token is one character       *)
(* class, except "py" (the word python right after a fence) and "img" (a   *)
(* whole image reference ![alt](src), which begins with '!').              *)
(***************************************************************************)
EXTENDS Integers, Sequences, FiniteSets, TLC

VARIABLES
    file_status,         \* the input file: "missing", "corrupt" (unreadable) or "ok"
    file_cells,          \* the cells of the notebook file on disk
    gateway,             \* "up": each external call may succeed or fail; "down": all fail
    notebook_content,    \* state["notebook_content"]["cells"] (<<>> for the initial {})
    processed_cells,     \* state["processed_cells"]
    current_cell_index,  \* state["current_cell_index"]
    total_cells,         \* state["total_cells"]
    output_path,         \* state["output_path"]
    error_message,       \* state["error_message"]
    pc,                  \* the node about to run, "route", or "END" / "RAISED"
    steps,               \* node executions so far (the framework's step counter)
    output_file,         \* the cells written to output_path, or NoFile
    calls,               \* the external calls of the most recent node, in order
    resp,                \* pure-function check: the input text
    once,                \* pure-function check: first result
    twice,               \* pure-function check: second result
    fpc,                 \* pure-function check: position
    arg,                 \* pure-function check: the parts the input was built from
    cli,                 \* main(): the command line and what it finds on disk
    exit_code            \* main(): the value returned, NoExit until it returns

vars == <<file_status, file_cells, gateway, notebook_content, processed_cells,
          current_cell_index, total_cells, output_path, error_message, pc,
          steps, output_file, calls, resp, once, twice, fpc, arg, cli,
          exit_code>>

wfvars == <<file_status, file_cells, gateway, notebook_content, processed_cells,
            current_cell_index, total_cells, output_path, error_message, pc,
            steps, output_file, calls>>

fnvars == <<resp, once, twice, fpc, arg, cli, exit_code>>

(***************************************************************************)
(* Bounds of the model.                                                    *)
(***************************************************************************)
MaxCells == 3
LongCells == 100
MaxStripLen == 7

MaxBodyLen == 3

MaxMdLen == 4

MaxMainCells == 2

(***************************************************************************)
(* Text: str.strip, str.startswith, str.endswith, slicing, ''.join,        *)
(* str.split('\n').                                                        *)
(***************************************************************************)
Whitespace == {"sp", "nl"}

RECURSIVE LStrip(_)
LStrip(s) ==
    IF s # <<>> /\ Head(s) \in Whitespace THEN LStrip(Tail(s)) ELSE s

RECURSIVE RStrip(_)
RStrip(s) ==
    IF s # <<>> /\ s[Len(s)] \in Whitespace
    THEN RStrip(SubSeq(s, 1, Len(s) - 1))
    ELSE s

Strip(s) == RStrip(LStrip(s))

StartsWith(s, p) == Len(s) >= Len(p) /\ SubSeq(s, 1, Len(p)) = p

EndsWith(s, p) == Len(s) >= Len(p) /\ SubSeq(s, Len(s) - Len(p) + 1, Len(s)) = p

DropFirst(s, n) == SubSeq(s, n + 1, Len(s))

DropLast(s, n) == SubSeq(s, 1, Len(s) - n)

Fence == <<"bt", "bt", "bt">>

FencePython == <<"bt", "bt", "bt", "py">>

(***************************************************************************)
(* The clean-up of the annotate response in process_code_cell.             *)
(***************************************************************************)
\* mutant: the clean-up without its last strip()
StripFenceNoLastStrip(enhanced_code) ==
    LET a == Strip(enhanced_code)
        b == IF StartsWith(a, FencePython) THEN DropFirst(a, Len(FencePython))
             ELSE IF StartsWith(a, Fence) THEN DropFirst(a, Len(Fence))
             ELSE a
    IN  IF EndsWith(b, Fence) THEN DropLast(b, Len(Fence)) ELSE b

StripFence(enhanced_code) ==
    LET a == Strip(enhanced_code)
        b == IF StartsWith(a, FencePython) THEN DropFirst(a, Len(FencePython))
             ELSE IF StartsWith(a, Fence) THEN DropFirst(a, Len(Fence))
             ELSE a
        c == IF EndsWith(b, Fence) THEN DropLast(b, Len(Fence)) ELSE b
    IN  Strip(c)

(***************************************************************************)
(* A cell's source is a text blob or a list of texts.                      *)
(***************************************************************************)
Str(s) == [list |-> FALSE, items |-> <<s>>]

Lines(ls) == [list |-> TRUE, items |-> ls]

RECURSIVE JoinEmpty(_)
JoinEmpty(items) ==
    IF items = <<>> THEN <<>> ELSE Head(items) \o JoinEmpty(Tail(items))

RECURSIVE JoinNL(_)
JoinNL(items) ==
    IF items = <<>> THEN <<>>
    ELSE IF Len(items) = 1 THEN Head(items)
    ELSE Head(items) \o <<"nl">> \o JoinNL(Tail(items))

\* isinstance(original_source, list): ''.join(original_source), else as it is
JoinSource(source) ==
    IF source.list THEN JoinEmpty(source.items) ELSE source.items[1]

RECURSIVE SplitNL(_)
SplitNL(s) ==
    IF \A i \in 1..Len(s) : s[i] # "nl" THEN <<s>>
    ELSE LET i == CHOOSE k \in 1..Len(s) :
                      s[k] = "nl" /\ \A j \in 1..(k - 1) : s[j] # "nl"
         IN  <<SubSeq(s, 1, i - 1)>> \o SplitNL(SubSeq(s, i + 1, Len(s)))

(***************************************************************************)
(* The language model gateway (LLMClient).  A reply is what the backend    *)
(* does with one request: ok = FALSE when the request raises, else content *)
(* is the message content (<<>> for an empty or missing content).          *)
(***************************************************************************)
Failed == [ok |-> FALSE, content |-> <<>>]

Reply(content) == [ok |-> TRUE, content |-> content]

translate_text(text, reply) ==
    IF reply.ok /\ reply.content # <<>> THEN Strip(reply.content) ELSE text

add_code_comments(code, reply) ==
    IF reply.ok /\ reply.content # <<>> THEN Strip(reply.content) ELSE code

describe_image(reply) ==
    IF reply.ok
    THEN IF reply.content # <<>> THEN Strip(reply.content) ELSE <<"unable">>
    ELSE <<"unable", "exc">>

\* the replies the backend may give to one request
AnnotateReplies ==
    { Failed, Reply(<<>>), Reply(<<"c", "nl", "x">>),
      Reply(<<"bt", "bt", "bt", "py", "nl", "c", "nl", "x", "nl", "bt", "bt", "bt">>) }

TranslateReplies == { Failed, Reply(<<"t", "nl">>) }

DescribeReplies == { Failed, Reply(<<"d">>) }

Replies(all, mode) == IF mode = "down" THEN {Failed} ELSE all

(***************************************************************************)
(* The image resolver, as the markdown processor sees it: get_image_data   *)
(* returns the bytes or raises.  An image outcome is whether the reference *)
(* resolved and, if so, the backend's reply to the describe request.       *)
(***************************************************************************)
Unresolved == [resolved |-> FALSE, reply |-> Failed]

Resolved(reply) == [resolved |-> TRUE, reply |-> reply]

ImageOutcomes(mode) ==
    {Unresolved} \cup { Resolved(r) : r \in Replies(DescribeReplies, mode) }

(***************************************************************************)
(* process_markdown_cell: grouping of the lines into sections.             *)
(***************************************************************************)
\* mutant: only a blank line closes a section
RECURSIVE GroupLinesBlankOnly(_, _, _)
GroupLinesBlankOnly(source_lines, current_section, sections) ==
    IF source_lines = <<>>
    THEN IF current_section # <<>> THEN Append(sections, current_section)
         ELSE sections
    ELSE LET line == Head(source_lines) IN
         IF Strip(line) = <<>>
         THEN GroupLinesBlankOnly(Tail(source_lines), <<>>,
                                  IF current_section # <<>>
                                  THEN Append(sections, current_section)
                                  ELSE sections)
         ELSE GroupLinesBlankOnly(Tail(source_lines),
                                  Append(current_section, line), sections)

RECURSIVE GroupLines(_, _, _)
GroupLines(source_lines, current_section, sections) ==
    IF source_lines = <<>>
    THEN IF current_section # <<>> THEN Append(sections, current_section)
         ELSE sections
    ELSE LET line == Head(source_lines) IN
         IF Strip(line) = <<>> \/ StartsWith(line, <<"hs">>)
         THEN GroupLines(Tail(source_lines),
                         IF Strip(line) # <<>> THEN <<line>> ELSE <<>>,
                         IF current_section # <<>>
                         THEN Append(sections, current_section)
                         ELSE sections)
         ELSE GroupLines(Tail(source_lines), Append(current_section, line),
                         sections)

Sections(source_text) == GroupLines(SplitNL(source_text), <<>>, <<>>)

\* image_pattern.findall(section_text): one match per image reference
CountImages(text) == Cardinality({ i \in 1..Len(text) : text[i] = "img" })

RECURSIVE SumImages(_)
SumImages(sections) ==
    IF sections = <<>> THEN 0
    ELSE CountImages(JoinNL(Head(sections))) + SumImages(Tail(sections))

\* mutant: only an image reference counts as a line starting with '!'
StartsWithImage(line) == StartsWith(line, <<"img">>)

\* line.startswith('!')
StartsWithBang(line) == StartsWith(line, <<"bang">>) \/ StartsWith(line, <<"img">>)

\* mutant: a line of images counts as text to translate
HasTextAnyLine(section) ==
    \E i \in 1..Len(section) : Strip(section[i]) # <<>>

\* any(line.strip() and not line.startswith('!') for line in section)
HasText(section) ==
    \E i \in 1..Len(section) :
        Strip(section[i]) # <<>> /\ ~StartsWithBang(section[i])

\* f"**{translation_label}：**" and f"**{description_label}：**"
TranslationLabel == <<"lblT">>

DescriptionLabel == <<"lblD">>

\* the description blocks of images k .. k + n - 1 of the cell
RECURSIVE ImageBlocks(_, _, _)
ImageBlocks(n, k, env) ==
    IF n = 0 THEN <<>>
    ELSE (IF env.image[k].resolved
          THEN << <<>>, DescriptionLabel, describe_image(env.image[k].reply) >>
          ELSE <<>>)
         \o ImageBlocks(n - 1, k + 1, env)

RECURSIVE ImageCalls(_, _, _)
ImageCalls(n, k, env) ==
    IF n = 0 THEN <<>>
    ELSE << [op |-> "resolve", ok |-> env.image[k].resolved] >>
         \o (IF env.image[k].resolved
             THEN << [op |-> "describe", ok |-> env.image[k].reply.ok] >>
             ELSE <<>>)
         \o ImageCalls(n - 1, k + 1, env)

\* one pass of the loop over the sections: section j, whose first image is
\* image k of the cell
SectionLines(section, j, k, env) ==
    LET section_text == JoinNL(section) IN
    section
    \o ImageBlocks(CountImages(section_text), k, env)
    \o (IF HasText(section)
        THEN << <<>>, TranslationLabel,
                translate_text(section_text, env.translate[j]) >>
        ELSE <<>>)
    \o << <<>> >>

SectionCalls(section, j, k, env) ==
    ImageCalls(CountImages(JoinNL(section)), k, env)
    \o (IF HasText(section)
        THEN << [op |-> "translate", ok |-> env.translate[j].ok] >>
        ELSE <<>>)

RECURSIVE ProcessSections(_, _, _, _)
ProcessSections(sections, j, k, env) ==
    IF j > Len(sections) THEN <<>>
    ELSE SectionLines(sections[j], j, k, env)
         \o ProcessSections(sections, j + 1,
                            k + CountImages(JoinNL(sections[j])), env)

RECURSIVE ProcessCalls(_, _, _, _)
ProcessCalls(sections, j, k, env) ==
    IF j > Len(sections) THEN <<>>
    ELSE SectionCalls(sections[j], j, k, env)
         \o ProcessCalls(sections, j + 1,
                         k + CountImages(JoinNL(sections[j])), env)

\* new_source_lines of a markdown cell whose source is `source`
MarkdownSource(source, env) ==
    ProcessSections(Sections(JoinSource(source)), 1, 1, env)

MarkdownCalls(source, env) ==
    ProcessCalls(Sections(JoinSource(source)), 1, 1, env)

\* what the outside world may do during one markdown cell
MarkdownEnvs(source, mode) ==
    LET sections == Sections(JoinSource(source)) IN
    [ translate : [1..Len(sections) -> Replies(TranslateReplies, mode)],
      image : [1..SumImages(sections) -> ImageOutcomes(mode)] ]

\* the cell appended by process_markdown_cell
MarkdownCell(cell, env) ==
    [cell EXCEPT !.source = Lines(MarkdownSource(cell.source, env))]

(***************************************************************************)
(* process_code_cell: the cell appended.  add_code_comments catches every  *)
(* failure of the backend itself and returns the code it was given, so the *)
(* handler at lines 183-186 never runs on a backend failure.               *)
(***************************************************************************)
CodeCell(cell, reply) ==
    [cell EXCEPT !.source =
        Str(StripFence(add_code_comments(JoinSource(cell.source), reply)))]

(***************************************************************************)
(* Documents.  nbformat.read(as_version=4) hands every source over as one  *)
(* text blob.  The id field stands for the pass-through fields of a cell.  *)
(***************************************************************************)
MarkdownSources == { <<"x">>, <<"hs", "x", "nl", "nl", "img">> }

CodeSources == { <<"sp", "x", "nl">> }

RawSources == { <<"x">> }

CellKinds ==
    { [cell_type |-> "markdown", source |-> Str(s)] : s \in MarkdownSources }
    \cup { [cell_type |-> "code", source |-> Str(s)] : s \in CodeSources }
    \cup { [cell_type |-> "raw", source |-> Str(s)] : s \in RawSources }

Document(kinds) ==
    [ i \in 1..Len(kinds) |->
        [cell_type |-> kinds[i].cell_type, source |-> kinds[i].source, id |-> i] ]

Documents ==
    { Document(kinds) : kinds \in UNION { [1..n -> CellKinds] : n \in 0..MaxCells } }

\* long notebooks of one kind of cell
LongDocuments ==
    { Document([i \in 1..LongCells |-> kind]) :
        kind \in { k \in CellKinds : k.source = Str(<<"x">>) \/ k.cell_type = "code" } }

\* config = {"recursion_limit": 100}
recursion_limit == 100

None == <<>>

\* mutant: the condition reads a field that is never set
HasErrorNeverSet(message) == FALSE

\* state.get("error_message") as a condition
HasError(message) == message # None

NoFile == [written |-> FALSE, cells |-> <<>>]

WrittenFile(cells) == [written |-> TRUE, cells |-> cells]

Nodes == { "load_and_parse_notebook", "process_markdown_cell",
           "process_code_cell", "skip_unsupported_cell", "rebuild_notebook" }

(***************************************************************************)
(* run_notebook_translation: the initial state handed to the graph, whose  *)
(* entry edge leads to load_and_parse_notebook.                            *)
(***************************************************************************)
InitWorkflow ==
    /\ file_status \in {"missing", "corrupt", "ok"}
    /\ \/ file_cells \in Documents /\ gateway = "up"
       \/ file_cells \in LongDocuments /\ gateway = "down"
    /\ notebook_content = <<>>
    /\ processed_cells = <<>>
    /\ current_cell_index = 0
    /\ total_cells = 0
    /\ output_path = ""
    /\ error_message = None
    /\ pc = "load_and_parse_notebook"
    /\ steps = 0
    /\ output_file = NoFile
    /\ calls = <<>>

\* no command line: run_notebook_translation called as a function
NoCli ==
    [check_config |-> FALSE, has_path |-> TRUE, suffix |-> ".ipynb",
     config_ok |-> TRUE, out_exists |-> FALSE, answer |-> ""]

NoExit == -1

InitNoFunction ==
    /\ resp = <<>>
    /\ once = <<>>
    /\ twice = <<>>
    /\ fpc = "off"
    /\ arg = <<>>

InitNoCli ==
    /\ cli = NoCli
    /\ exit_code = NoExit

Init == InitWorkflow /\ InitNoFunction /\ InitNoCli

\* a node runs as one step of the graph, and its conditional edge with it
NodeStep(node) ==
    /\ pc = node
    /\ steps < recursion_limit
    /\ steps' = steps + 1

(***************************************************************************)
(* notebook_io.py                                                          *)
(***************************************************************************)
load_and_parse_notebook ==
    /\ NodeStep("load_and_parse_notebook")
    /\ pc' = "route"
    /\ calls' = <<>>
    /\ IF file_status = "missing"
       THEN /\ error_message' = <<"Input file not found">>
            /\ UNCHANGED <<notebook_content, output_path, processed_cells,
                           current_cell_index, total_cells>>
       ELSE IF file_status = "corrupt"
       THEN /\ error_message' = <<"Error loading notebook">>
            /\ UNCHANGED <<notebook_content, output_path, processed_cells,
                           current_cell_index, total_cells>>
       ELSE /\ notebook_content' = file_cells
            /\ output_path' = "translated"
            /\ processed_cells' = <<>>
            /\ current_cell_index' = 0
            /\ total_cells' = Len(file_cells)
            /\ error_message' = None
    /\ UNCHANGED <<file_status, file_cells, gateway, output_file, fnvars>>

\* mutant: the output document is the loaded one, not a copy of it (line 71)
rebuild_notebook_in_place ==
    /\ NodeStep("rebuild_notebook")
    /\ pc' = "END"
    /\ calls' = <<>>
    /\ IF HasError(error_message)
       THEN UNCHANGED <<error_message, output_file, notebook_content>>
       ELSE /\ notebook_content' = processed_cells
            /\ \E write_ok \in BOOLEAN :
                  IF write_ok
                  THEN /\ output_file' = WrittenFile(processed_cells)
                       /\ UNCHANGED error_message
                  ELSE /\ error_message' = <<"Error saving notebook">>
                       /\ UNCHANGED output_file
    /\ UNCHANGED <<file_status, file_cells, gateway, processed_cells,
                   current_cell_index, total_cells, output_path, fnvars>>

\* write_ok: whether creating the directories and writing the file succeed
rebuild_notebook ==
    /\ NodeStep("rebuild_notebook")
    /\ pc' = "END"
    /\ calls' = <<>>
    /\ IF HasError(error_message)
       THEN UNCHANGED <<error_message, output_file>>
       ELSE \E write_ok \in BOOLEAN :
               IF write_ok
               THEN /\ output_file' = WrittenFile(processed_cells)
                    /\ UNCHANGED error_message
               ELSE /\ error_message' = <<"Error saving notebook">>
                    /\ UNCHANGED output_file
    /\ UNCHANGED <<file_status, file_cells, gateway, notebook_content,
                   processed_cells, current_cell_index, total_cells,
                   output_path, fnvars>>

(***************************************************************************)
(* cell_processors.py: the nodes.  Indices count from 0 in the program and *)
(* from 1 in a sequence: cells[i] of the program is notebook_content[i+1]. *)
(***************************************************************************)
CellAt(i) == notebook_content[i + 1]

\* mutant: the markdown processor without line 122
process_markdown_cell_no_advance ==
    /\ NodeStep("process_markdown_cell")
    /\ pc' = "route"
    /\ IF current_cell_index >= Len(notebook_content)
       THEN /\ error_message' = <<"Cell index out of range">>
            /\ calls' = <<>>
            /\ UNCHANGED <<processed_cells, current_cell_index>>
       ELSE IF CellAt(current_cell_index).cell_type # "markdown"
       THEN /\ error_message' =
                <<"Expected markdown cell, got",
                  CellAt(current_cell_index).cell_type>>
            /\ calls' = <<>>
            /\ UNCHANGED <<processed_cells, current_cell_index>>
       ELSE \E env \in MarkdownEnvs(CellAt(current_cell_index).source, gateway) :
               /\ processed_cells' =
                      Append(processed_cells,
                             MarkdownCell(CellAt(current_cell_index), env))
               /\ calls' = MarkdownCalls(CellAt(current_cell_index).source, env)
               /\ UNCHANGED <<error_message, current_cell_index>>
    /\ UNCHANGED <<file_status, file_cells, gateway, notebook_content,
                   total_cells, output_path, output_file, fnvars>>

process_markdown_cell ==
    /\ NodeStep("process_markdown_cell")
    /\ pc' = "route"
    /\ IF current_cell_index >= Len(notebook_content)
       THEN /\ error_message' = <<"Cell index out of range">>
            /\ calls' = <<>>
            /\ UNCHANGED <<processed_cells, current_cell_index>>
       ELSE IF CellAt(current_cell_index).cell_type # "markdown"
       THEN /\ error_message' =
                <<"Expected markdown cell, got",
                  CellAt(current_cell_index).cell_type>>
            /\ calls' = <<>>
            /\ UNCHANGED <<processed_cells, current_cell_index>>
       ELSE \E env \in MarkdownEnvs(CellAt(current_cell_index).source, gateway) :
               /\ processed_cells' =
                      Append(processed_cells,
                             MarkdownCell(CellAt(current_cell_index), env))
               /\ current_cell_index' = current_cell_index + 1
               /\ calls' = MarkdownCalls(CellAt(current_cell_index).source, env)
               /\ UNCHANGED error_message
    /\ UNCHANGED <<file_status, file_cells, gateway, notebook_content,
                   total_cells, output_path, output_file, fnvars>>

\* mutant: a failed annotate request reaches the handler of lines 196-199
process_code_cell_failure_escapes ==
    /\ NodeStep("process_code_cell")
    /\ pc' = "route"
    /\ current_cell_index < Len(notebook_content)
    /\ CellAt(current_cell_index).cell_type = "code"
    /\ \E reply \in Replies(AnnotateReplies, gateway) :
          /\ calls' = << [op |-> "annotate", ok |-> reply.ok] >>
          /\ IF reply.ok
             THEN /\ processed_cells' =
                         Append(processed_cells,
                                CodeCell(CellAt(current_cell_index), reply))
                  /\ current_cell_index' = current_cell_index + 1
                  /\ UNCHANGED error_message
             ELSE /\ error_message' = <<"Error processing code cell">>
                  /\ UNCHANGED <<processed_cells, current_cell_index>>
    /\ UNCHANGED <<file_status, file_cells, gateway, notebook_content,
                   total_cells, output_path, output_file, fnvars>>

process_code_cell ==
    /\ NodeStep("process_code_cell")
    /\ pc' = "route"
    /\ IF current_cell_index >= Len(notebook_content)
       THEN /\ error_message' = <<"Cell index out of range">>
            /\ calls' = <<>>
            /\ UNCHANGED <<processed_cells, current_cell_index>>
       ELSE IF CellAt(current_cell_index).cell_type # "code"
       THEN /\ error_message' =
                <<"Expected code cell, got",
                  CellAt(current_cell_index).cell_type>>
            /\ calls' = <<>>
            /\ UNCHANGED <<processed_cells, current_cell_index>>
       ELSE \E reply \in Replies(AnnotateReplies, gateway) :
               /\ processed_cells' =
                      Append(processed_cells,
                             CodeCell(CellAt(current_cell_index), reply))
               /\ current_cell_index' = current_cell_index + 1
               /\ calls' = << [op |-> "annotate", ok |-> reply.ok] >>
               /\ UNCHANGED error_message
    /\ UNCHANGED <<file_status, file_cells, gateway, notebook_content,
                   total_cells, output_path, output_file, fnvars>>

skip_unsupported_cell ==
    /\ NodeStep("skip_unsupported_cell")
    /\ pc' = "route"
    /\ calls' = <<>>
    /\ IF current_cell_index >= Len(notebook_content)
       THEN UNCHANGED <<processed_cells, current_cell_index>>
       ELSE /\ processed_cells' =
                   Append(processed_cells, CellAt(current_cell_index))
            /\ current_cell_index' = current_cell_index + 1
    /\ UNCHANGED <<file_status, file_cells, gateway, notebook_content,
                   total_cells, output_path, error_message, output_file,
                   fnvars>>

(***************************************************************************)
(* route_cell_processing is attached with add_conditional_edges            *)
(* (workflow.py 38-87): the graph calls it with a dict built for the call  *)
(* from the state's fields and takes from it only the name it returns.     *)
(* The dict's processed_cells is the list object the state holds, so the   *)
(* append of line 235, made in place, is an append to the state's list;    *)
(* the assignment of line 236 replaces an entry of the call's dict and     *)
(* ends with the call: the state's current_cell_index is what the last     *)
(* node returned.  Within the call the router goes on with the new index.  *)
(***************************************************************************)
NodeFor(cell_type, other) ==
    IF cell_type = "markdown" THEN "process_markdown_cell"
    ELSE IF cell_type = "code" THEN "process_code_cell"
    ELSE other

\* the name returned for index >= total_cells or for the cell at index
RouteAt(index) ==
    IF index >= total_cells THEN "rebuild_notebook"
    ELSE NodeFor(CellAt(index).cell_type, "skip_unsupported_cell")

\* the router's own copy of an unsupported cell (lines 232-237)
RouterCopies ==
    /\ ~HasError(error_message)
    /\ current_cell_index < total_cells
    /\ NodeFor(CellAt(current_cell_index).cell_type, "other") = "other"

\* mutant: the router without its check of the error field (lines 212-214)
route_without_error_check ==
    /\ pc = "route"
    /\ IF /\ current_cell_index < total_cells
          /\ NodeFor(CellAt(current_cell_index).cell_type, "other") = "other"
       THEN /\ processed_cells' =
                   Append(processed_cells, CellAt(current_cell_index))
            /\ pc' = RouteAt(current_cell_index + 1)
       ELSE /\ pc' = RouteAt(current_cell_index)
            /\ UNCHANGED processed_cells
    /\ UNCHANGED <<file_status, file_cells, gateway, notebook_content,
                   current_cell_index, total_cells, output_path,
                   error_message, steps, output_file, calls, fnvars>>

route_cell_processing ==
    /\ pc = "route"
    /\ IF HasError(error_message)
       THEN /\ pc' = "END"
            /\ UNCHANGED processed_cells
       ELSE IF RouterCopies
       THEN /\ processed_cells' =
                   Append(processed_cells, CellAt(current_cell_index))
            /\ pc' = RouteAt(current_cell_index + 1)
       ELSE /\ pc' = RouteAt(current_cell_index)
            /\ UNCHANGED processed_cells
    /\ UNCHANGED <<file_status, file_cells, gateway, notebook_content,
                   current_cell_index, total_cells, output_path,
                   error_message, steps, output_file, calls, fnvars>>

(***************************************************************************)
(* workflow.invoke raises once the graph has run recursion_limit steps     *)
(* without reaching its end; run_notebook_translation (lines 144-151)      *)
(* returns a dict holding the error message.  A notebook of n markdown or  *)
(* code cells takes n + 2 steps (load, one per cell, rebuild).             *)
(***************************************************************************)
step_limit_reached ==
    /\ pc \in Nodes
    /\ steps >= recursion_limit
    /\ pc' = "RAISED"
    /\ error_message' = <<"Workflow execution failed">>
    /\ UNCHANGED <<file_status, file_cells, gateway, notebook_content,
                   processed_cells, current_cell_index, total_cells,
                   output_path, steps, output_file, calls, fnvars>>

Next ==
    \/ load_and_parse_notebook
    \/ route_cell_processing
    \/ process_markdown_cell
    \/ process_code_cell
    \/ skip_unsupported_cell
    \/ rebuild_notebook
    \/ step_limit_reached

Spec == Init /\ [][Next]_vars

(***************************************************************************)
(* The clean-up of process_code_cell as a function of the backend's        *)
(* response: every response up to MaxStripLen tokens is cleaned as the     *)
(* code cell processor cleans it, and the result is cleaned once more.     *)
(***************************************************************************)
StripAlphabet == {"bt", "sp", "py", "x"}

Responses == UNION { [1..n -> StripAlphabet] : n \in 0..MaxStripLen }

StripCell == [cell_type |-> "code", source |-> Str(<<"sp", "x", "nl">>), id |-> 1]

InitStrip ==
    /\ resp \in Responses
    /\ once = <<>>
    /\ twice = <<>>
    /\ fpc = "response"
    /\ arg = <<>>
    /\ InitNoCli
    /\ file_status = "ok"
    /\ file_cells = <<StripCell>>
    /\ gateway = "up"
    /\ notebook_content = <<StripCell>>
    /\ processed_cells = <<>>
    /\ current_cell_index = 0
    /\ total_cells = 1
    /\ output_path = "translated"
    /\ error_message = None
    /\ pc = "off"
    /\ steps = 0
    /\ output_file = NoFile
    /\ calls = <<>>

\* lines 169-181 on the response resp
clean_response ==
    /\ fpc = "response"
    /\ once' = JoinSource(CodeCell(StripCell, Reply(resp)).source)
    /\ fpc' = "cleaned"
    /\ UNCHANGED <<resp, twice, arg, cli, exit_code, wfvars>>

\* lines 172-179 on the cell source produced
clean_again ==
    /\ fpc = "cleaned"
    /\ twice' = StripFence(once)
    /\ fpc' = "cleaned twice"
    /\ UNCHANGED <<resp, once, arg, cli, exit_code, wfvars>>

NextStrip == clean_response \/ clean_again

SpecStrip == InitStrip /\ [][NextStrip]_vars

(***************************************************************************)
(* The clean-up of process_code_cell on a response the backend wrapped in  *)
(* a code block: an opening fence, generic or carrying a language tag, a   *)
(* body of up to MaxBodyLen tokens, a closing fence, with or without a     *)
(* newline around the whole.                                               *)
(***************************************************************************)
FenceTags == { <<>>, <<"py">>, <<"lang">> }

Bodies == UNION { [1..n -> {"x", "c", "sp", "nl"}] : n \in 0..MaxBodyLen }

Pads == { <<>>, <<"nl">> }

Wrapped(before, tag, body, after) ==
    before \o Fence \o tag \o <<"nl">> \o body \o <<"nl">> \o Fence \o after

InitFence ==
    /\ \E before \in Pads, after \in Pads, tag \in FenceTags, body \in Bodies :
          /\ resp = Wrapped(before, tag, body, after)
          /\ arg = [tag |-> tag, body |-> body]
    /\ once = <<>>
    /\ twice = <<>>
    /\ fpc = "response"
    /\ InitNoCli
    /\ file_status = "ok"
    /\ file_cells = <<StripCell>>
    /\ gateway = "up"
    /\ notebook_content = <<StripCell>>
    /\ processed_cells = <<>>
    /\ current_cell_index = 0
    /\ total_cells = 1
    /\ output_path = "translated"
    /\ error_message = None
    /\ pc = "off"
    /\ steps = 0
    /\ output_file = NoFile
    /\ calls = <<>>

SpecFence == InitFence /\ [][clean_response]_vars

(***************************************************************************)
(* process_markdown_cell as a function of the cell's text and of what the  *)
(* resolver and the backend do: the notebook has one markdown cell, whose  *)
(* text is any text of up to MaxMdLen tokens or the three-section example  *)
(* "# Title", "Hello world", "![pic](img.png)"; the state is the one the   *)
(* loader and the router leave.                                            *)
(***************************************************************************)
ExampleText == <<"hs", "x", "nl", "nl", "x", "sp", "x", "nl", "nl", "img">>

MdTexts ==
    UNION { [1..n -> {"hs", "x", "sp", "nl", "bang", "img"}] : n \in 0..MaxMdLen }
    \cup {ExampleText}

MdCell(text) == [cell_type |-> "markdown", source |-> Str(text), id |-> 1]

InitMarkdown ==
    /\ \E text \in MdTexts :
          /\ file_cells = <<MdCell(text)>>
          /\ notebook_content = <<MdCell(text)>>
    /\ file_status = "ok"
    /\ gateway = "up"
    /\ processed_cells = <<>>
    /\ current_cell_index = 0
    /\ total_cells = 1
    /\ output_path = "translated"
    /\ error_message = None
    /\ pc = "process_markdown_cell"
    /\ steps = 1
    /\ output_file = NoFile
    /\ calls = <<>>
    /\ InitNoFunction
    /\ InitNoCli

SpecMarkdown == InitMarkdown /\ [][process_markdown_cell]_vars

(***************************************************************************)
(* main.py: the command line entry point around run_notebook_translation.  *)
(* cli holds the arguments and what main finds: whether --check-config was *)
(* given, whether an input path was given, the path's suffix, whether the  *)
(* configuration validates, whether the output path exists, and the answer *)
(* typed at the overwrite prompt ("" until asked).  The input path exists  *)
(* unless file_status is "missing".  output_file is what this run writes   *)
(* to the output path: it stays NoFile while an existing file is left      *)
(* alone.                                                                  *)
(***************************************************************************)
Suffixes == { ".ipynb", ".IPYNB", ".txt", "" }

Answers == { "y", "Y", "yes", "YES", "n", "" }

\* str.lower on the strings above
Lower(s) ==
    CASE s = "Y" -> "y"
      [] s = "YES" -> "yes"
      [] s = ".IPYNB" -> ".ipynb"
      [] OTHER -> s

CommandLines ==
    [check_config : BOOLEAN, has_path : BOOLEAN, suffix : Suffixes,
     config_ok : BOOLEAN, out_exists : BOOLEAN, answer : {""}]

MainDocuments ==
    { Document(kinds) :
        kinds \in UNION { [1..n -> CellKinds] : n \in 0..MaxMainCells } }

InitMain ==
    /\ cli \in CommandLines
    /\ exit_code = NoExit
    /\ file_status \in {"missing", "corrupt", "ok"}
    /\ \/ file_cells \in MainDocuments /\ gateway = "up"
       \/ file_cells \in LongDocuments /\ gateway = "down"
    /\ notebook_content = <<>>
    /\ processed_cells = <<>>
    /\ current_cell_index = 0
    /\ total_cells = 0
    /\ output_path = ""
    /\ error_message = None
    /\ pc = "main"
    /\ steps = 0
    /\ output_file = NoFile
    /\ calls = <<>>
    /\ InitNoFunction

\* lines 53-63: --check-config validates the configuration and returns
main_check_config ==
    /\ pc = "main"
    /\ exit_code = NoExit
    /\ cli.check_config
    /\ exit_code' = IF cli.config_ok THEN 0 ELSE 1
    /\ UNCHANGED <<wfvars, resp, once, twice, fpc, arg, cli>>

\* mutant: the answer is compared as typed (line 97 without lower())
main_validate_case_sensitive ==
    /\ pc = "main"
    /\ exit_code = NoExit
    /\ ~cli.check_config
    /\ IF \/ ~cli.has_path
          \/ file_status = "missing"
          \/ Lower(cli.suffix) # ".ipynb"
          \/ ~cli.config_ok
       THEN /\ exit_code' = 1
            /\ UNCHANGED <<pc, cli>>
       ELSE IF cli.out_exists
       THEN \E response \in Answers :
               /\ cli' = [cli EXCEPT !.answer = response]
               /\ IF response \notin {"y", "yes"}
                  THEN exit_code' = 1 /\ UNCHANGED pc
                  ELSE pc' = "load_and_parse_notebook" /\ UNCHANGED exit_code
       ELSE /\ pc' = "load_and_parse_notebook"
            /\ UNCHANGED <<exit_code, cli>>
    /\ UNCHANGED <<file_status, file_cells, gateway, notebook_content,
                   processed_cells, current_cell_index, total_cells,
                   output_path, error_message, steps, output_file, calls,
                   resp, once, twice, fpc, arg>>

\* lines 66-99: the checks before the workflow, each returning 1, and the
\* overwrite prompt; past them main calls run_notebook_translation
main_validate ==
    /\ pc = "main"
    /\ exit_code = NoExit
    /\ ~cli.check_config
    /\ IF \/ ~cli.has_path
          \/ file_status = "missing"
          \/ Lower(cli.suffix) # ".ipynb"
          \/ ~cli.config_ok
       THEN /\ exit_code' = 1
            /\ UNCHANGED <<pc, cli>>
       ELSE IF cli.out_exists
       THEN \E response \in Answers :
               /\ cli' = [cli EXCEPT !.answer = response]
               /\ IF Lower(response) \notin {"y", "yes"}
                  THEN exit_code' = 1 /\ UNCHANGED pc
                  ELSE pc' = "load_and_parse_notebook" /\ UNCHANGED exit_code
       ELSE /\ pc' = "load_and_parse_notebook"
            /\ UNCHANGED <<exit_code, cli>>
    /\ UNCHANGED <<file_status, file_cells, gateway, notebook_content,
                   processed_cells, current_cell_index, total_cells,
                   output_path, error_message, steps, output_file, calls,
                   resp, once, twice, fpc, arg>>

\* Ctrl-C while a node runs: KeyboardInterrupt is no Exception, so it passes
\* the handler of run_notebook_translation and reaches main (lines 115-117)
interrupted ==
    /\ pc \in Nodes
    /\ pc' = "INTERRUPTED"
    /\ UNCHANGED <<file_status, file_cells, gateway, notebook_content,
                   processed_cells, current_cell_index, total_cells,
                   output_path, error_message, steps, output_file, calls,
                   fnvars>>

\* mutant: main reports success whatever the result holds
main_result_ignores_error ==
    /\ pc \in {"END", "RAISED", "INTERRUPTED"}
    /\ exit_code = NoExit
    /\ exit_code' = IF pc = "INTERRUPTED" THEN 1 ELSE 0
    /\ UNCHANGED <<wfvars, resp, once, twice, fpc, arg, cli>>

\* lines 102-120: the exit code from the result of the workflow
main_result ==
    /\ pc \in {"END", "RAISED", "INTERRUPTED"}
    /\ exit_code = NoExit
    /\ exit_code' = IF pc = "INTERRUPTED" \/ HasError(error_message) THEN 1 ELSE 0
    /\ UNCHANGED <<wfvars, resp, once, twice, fpc, arg, cli>>

NextMain ==
    \/ main_check_config
    \/ main_validate
    \/ Next
    \/ interrupted
    \/ main_result

SpecMain == InitMain /\ [][NextMain]_vars

(***************************************************************************)
(* get_image_data as a function of the reference and of what the world    *)
(* holds.  A reference is its scheme ("data" for the prefix 'data:image/', *)
(* "http", "https", else "path"), whether a comma follows the prefix and   *)
(* the payload decodes, whether the fetch succeeds, what os.path.exists    *)
(* and open find at the path as given and at the path joined to the        *)
(* notebook's directory ("absent", "file", or "dir" for something that     *)
(* exists and cannot be read), whether the path is absolute, and whether   *)
(* input_path was passed.  The result is whether bytes were returned and   *)
(* the accesses made, in order.                                            *)
(***************************************************************************)
Schemes == {"data", "http", "https", "path"}

OnDisk == {"absent", "file", "dir"}

References ==
    [scheme : Schemes, comma : BOOLEAN, decodable : BOOLEAN, net_ok : BOOLEAN,
     given : OnDisk, relative : OnDisk, absolute : BOOLEAN,
     input_path : BOOLEAN]

\* os.path.join(notebook_dir, src) is src itself when src is absolute
AtRelative(ref) == IF ref.absolute THEN ref.given ELSE ref.relative

\* mutant: the path is looked up on disk before the scheme is examined
get_image_data_disk_first(ref) ==
    IF ref.given # "absent"
    THEN [ok |-> ref.given = "file", accesses |-> <<"given">>]
    ELSE IF ref.scheme = "data"
    THEN IF ref.comma
         THEN [ok |-> ref.decodable, accesses |-> <<"given", "decode">>]
         ELSE [ok |-> FALSE, accesses |-> <<"given">>]
    ELSE IF ref.scheme \in {"http", "https"}
    THEN [ok |-> ref.net_ok, accesses |-> <<"given", "network">>]
    ELSE IF ref.input_path
    THEN [ok |-> AtRelative(ref) = "file", accesses |-> <<"given", "relative">>]
    ELSE [ok |-> FALSE, accesses |-> <<"given">>]

get_image_data(ref) ==
    IF ref.scheme = "data"
    THEN IF ref.comma
         THEN [ok |-> ref.decodable, accesses |-> <<"decode">>]
         ELSE [ok |-> FALSE, accesses |-> <<>>]
    ELSE IF ref.scheme \in {"http", "https"}
    THEN [ok |-> ref.net_ok, accesses |-> <<"network">>]
    ELSE IF ref.given # "absent"
    THEN [ok |-> ref.given = "file", accesses |-> <<"given">>]
    ELSE IF ref.input_path
    THEN [ok |-> AtRelative(ref) = "file", accesses |-> <<"given", "relative">>]
    ELSE [ok |-> FALSE, accesses |-> <<"given">>]

InitResolve ==
    /\ arg \in References
    /\ once = <<>>
    /\ twice = <<>>
    /\ resp = <<>>
    /\ fpc = "reference"
    /\ InitNoCli
    /\ file_status = "ok"
    /\ file_cells = <<>>
    /\ gateway = "up"
    /\ notebook_content = <<>>
    /\ processed_cells = <<>>
    /\ current_cell_index = 0
    /\ total_cells = 0
    /\ output_path = "translated"
    /\ error_message = None
    /\ pc = "off"
    /\ steps = 0
    /\ output_file = NoFile
    /\ calls = <<>>

\* line 89: image_data = get_image_data(src, state.get("input_path"))
resolve_reference ==
    /\ fpc = "reference"
    /\ once' = get_image_data(arg)
    /\ fpc' = "resolved"
    /\ UNCHANGED <<resp, twice, arg, cli, exit_code, wfvars>>

SpecResolve == InitResolve /\ [][resolve_reference]_vars

(***************************************************************************)
(* config.py: the labels, and the use the processors make of the target    *)
(* language.  A target language string is a name and the casing it is      *)
(* typed in; str.lower changes the casing alone.  The tables are keyed by  *)
(* the lower-case names; the labels are written here in Latin letters.    *)
(***************************************************************************)
Casings == {"lower", "Title", "UPPER", "mIxEd"}

TargetLanguages ==
    [name : {"chinese", "english", "spanish", "french", "german", "japanese",
             "korean", "russian", "portuguese", "italian",
             "klingon", "mandarin", "zh", "dutch"},
     casing : Casings]

lower(target_language) == [target_language EXCEPT !.casing = "lower"]

translation_labels ==
    [chinese |-> "Fanyi", english |-> "Translation", spanish |-> "Traduccion",
     french |-> "Traduction", german |-> "Ubersetzung", japanese |-> "Honyaku",
     korean |-> "Beonyeok", russian |-> "Perevod", portuguese |-> "Traducao",
     italian |-> "Traduzione"]

description_labels ==
    [chinese |-> "Tupian shuoming", english |-> "Image Description",
     spanish |-> "Descripcion de Imagen", french |-> "Description d'Image",
     german |-> "Bildbeschreibung", japanese |-> "Gazo setsumei",
     korean |-> "Imiji seolmyeong", russian |-> "Opisanie izobrazheniya",
     portuguese |-> "Descricao da Imagem",
     italian |-> "Descrizione dell'Immagine"]

\* labels.get(key, default): the keys of the table are lower-case strings
Get(labels, key, default) ==
    IF key.casing = "lower" /\ key.name \in DOMAIN labels
    THEN labels[key.name]
    ELSE default

\* mutant: the table is searched for the string as typed
get_translation_label_as_typed(target_language) ==
    Get(translation_labels, target_language, "Translation")

get_translation_label(target_language) ==
    Get(translation_labels, lower(target_language), "Translation")

get_description_label(target_language) ==
    Get(description_labels, lower(target_language), "Image Description")

InitLabel ==
    /\ arg \in TargetLanguages
    /\ once = <<>>
    /\ twice = <<>>
    /\ resp = <<>>
    /\ fpc = "language"
    /\ InitNoCli
    /\ file_status = "ok"
    /\ file_cells = <<>>
    /\ gateway = "up"
    /\ notebook_content = <<>>
    /\ processed_cells = <<>>
    /\ current_cell_index = 0
    /\ total_cells = 0
    /\ output_path = "translated"
    /\ error_message = None
    /\ pc = "off"
    /\ steps = 0
    /\ output_file = NoFile
    /\ calls = <<>>

\* process_markdown_cell, lines 40, 90-91 and 103-104: the language handed
\* to describe_image and translate_text, and the labels looked up
markdown_language ==
    /\ fpc = "language"
    /\ once = <<>>
    /\ once' = [describe_arg |-> arg,
                description_label |-> get_description_label(arg),
                translate_arg |-> arg,
                translation_label |-> get_translation_label(arg)]
    /\ UNCHANGED <<resp, twice, fpc, arg, cli, exit_code, wfvars>>

\* process_code_cell, lines 159 and 169: the language handed to
\* add_code_comments
code_language ==
    /\ fpc = "language"
    /\ twice = <<>>
    /\ twice' = [annotate_arg |-> arg]
    /\ UNCHANGED <<resp, once, fpc, arg, cli, exit_code, wfvars>>

NextLabel == markdown_language \/ code_language

SpecLabel == InitLabel /\ [][NextLabel]_vars

(***************************************************************************)
(* The processors on cells whose source is empty, as a string or as a list *)
(* of lines: notebooks of one or two markdown or code cells, some of them  *)
(* empty, from the state the loader leaves.                                *)
(***************************************************************************)
EmptySources == { Str(<<>>), Lines(<<>>) }

EmptyKinds ==
    { [cell_type |-> t, source |-> s] :
        t \in {"markdown", "code"}, s \in EmptySources \cup {Str(<<"x">>)} }

EmptyDocuments ==
    { Document(kinds) : kinds \in UNION { [1..n -> EmptyKinds] : n \in 1..2 } }

InitEmpty ==
    /\ file_cells \in EmptyDocuments
    /\ notebook_content = file_cells
    /\ total_cells = Len(file_cells)
    /\ file_status = "ok"
    /\ gateway = "up"
    /\ processed_cells = <<>>
    /\ current_cell_index = 0
    /\ output_path = "translated"
    /\ error_message = None
    /\ pc = "route"
    /\ steps = 1
    /\ output_file = NoFile
    /\ calls = <<>>
    /\ InitNoFunction
    /\ InitNoCli

NextEmpty ==
    \/ route_cell_processing
    \/ process_markdown_cell
    \/ process_code_cell
    \/ rebuild_notebook

SpecEmpty == InitEmpty /\ [][NextEmpty]_vars

(***************************************************************************)
(* Properties.                                                             *)
(***************************************************************************)
Finished == pc \in {"END", "RAISED"}

Processors == {"process_markdown_cell", "process_code_cell"}

IsPrefix(s, t) == Len(s) <= Len(t) /\ SubSeq(t, 1, Len(s)) = s

AnyFailure(log) ==
    \E i \in 1..Len(log) :
        ~log[i].ok /\ log[i].op \in {"translate", "describe", "annotate", "resolve"}

\* the markdown cell of SpecMarkdown: its text, whether it has been processed,
\* and the lines written for it
MdIn == JoinSource(notebook_content[1].source)

MdDone == pc = "route" /\ Len(processed_cells) = 1

MdOut == processed_cells[1].source.items

CountLine(lines, l) == Cardinality({ i \in 1..Len(lines) : lines[i] = l })

CountCalls(log, op, ok) ==
    Cardinality({ i \in 1..Len(log) : log[i].op = op /\ log[i].ok = ok })

NonBlank(lines) == SelectSeq(lines, LAMBDA l : Strip(l) # <<>>)

\* C1: a run that ends with no error recorded has written an output whose
\* cell sequence has as many cells as the input document, and whose cell at
\* every position comes from the input cell at that position (same cell_type,
\* same pass-through fields): nothing dropped, duplicated or reordered.
C1_CellsPreserved ==
    (pc = "END" /\ error_message = None) =>
        /\ output_file.written
        /\ Len(output_file.cells) = Len(file_cells)
        /\ \A i \in 1..Len(output_file.cells) :
               i <= Len(file_cells) =>
                   /\ output_file.cells[i].cell_type = file_cells[i].cell_type
                   /\ output_file.cells[i].id = file_cells[i].id

\* C2: in every state between steps of the workflow current_cell_index equals
\* the length of processed_cells.
C2_IndexIsLength == current_cell_index = Len(processed_cells)

\* C3: current_cell_index never decreases and stays within 0 .. cell count;
\* processed_cells only grows by appending and never grows beyond the cell
\* count of the document.
C3_MonotoneAppendOnly ==
    [][ /\ current_cell_index' >= current_cell_index
        /\ 0 <= current_cell_index'
        /\ current_cell_index' <= Len(file_cells)
        /\ IsPrefix(processed_cells, processed_cells')
        /\ Len(processed_cells') <= Len(file_cells) ]_vars

\* C4: the error field is write-once and halting: from a state with an error
\* recorded, no step changes error_message, current_cell_index or
\* processed_cells.
C4_ErrorHalts ==
    [][ error_message # None =>
            /\ error_message' = error_message
            /\ current_cell_index' = current_cell_index
            /\ processed_cells' = processed_cells ]_vars

\* C4 witness: a run ended by an error recorded after cells were consumed.
C4_Witness ==
    /\ pc = "END"
    /\ error_message # None
    /\ Len(processed_cells) > 0
    /\ ~output_file.written

\* C5: once a pipeline-fatal error is recorded no output file is written in
\* that run and no node is entered again: neither a cell processor nor the
\* rebuild node runs after a failed load or a failed cell step.
C5_NoOutputAfterError ==
    [][ /\ error_message # None => pc' \notin Nodes
        /\ error_message' # None => ~output_file'.written ]_vars

\* C5 witness: a run that ended on an error recorded before the rebuild step,
\* with no output file.
C5_Witness ==
    /\ pc = "END"
    /\ error_message # None
    /\ error_message # <<"Error saving notebook">>
    /\ output_file = NoFile

\* C6: a processor step in which an external operation fails records no
\* error, appends the cell it was processing and advances the index by one;
\* and with no error recorded the router does not end the run.
C6_FailuresNotFatal ==
    [][ /\ (pc \in Processors /\ pc' = "route" /\ AnyFailure(calls')) =>
               /\ error_message' = None
               /\ Len(processed_cells') = Len(processed_cells) + 1
               /\ processed_cells'[Len(processed_cells')].id
                      = CellAt(current_cell_index).id
               /\ current_cell_index' = current_cell_index + 1
        /\ (pc = "route" /\ error_message = None) => pc' \in Nodes ]_vars

\* C6 witness: a processor has just run, an external call of it failed, the
\* cell was consumed and no error is recorded.
C6_Witness ==
    /\ pc = "route"
    /\ AnyFailure(calls)
    /\ error_message = None
    /\ current_cell_index > 0

\* C7: every run over a document that loads ends having reached the rebuild
\* step with all the document's cells in processed_cells and no error
\* recorded before it; the step limit never ends a run.
C7_AlwaysRebuilt ==
    (Finished /\ file_status = "ok") =>
        /\ pc = "END"
        /\ error_message \in {None, <<"Error saving notebook">>}
        /\ Len(processed_cells) = Len(file_cells)

\* C8: a run ends either through the rebuild step, which the router picks only
\* when current_cell_index >= total_cells with no error recorded, or at END
\* with an error recorded; the router picks no processor when
\* current_cell_index >= total_cells.
C8_RouterTermination ==
    [][ pc = "route" =>
            /\ pc' = "rebuild_notebook" =>
                   current_cell_index' >= total_cells' /\ error_message' = None
            /\ pc' \in Nodes \ {"rebuild_notebook"} =>
                   current_cell_index' < total_cells'
            /\ pc' = "END" => error_message' # None ]_vars

\* C9: when the annotate request fails, the code cell appended has exactly the
\* source text of the original cell.
C9_IdentityFallback ==
    [][ (pc = "process_code_cell" /\ pc' = "route"
         /\ calls' = << [op |-> "annotate", ok |-> FALSE] >>) =>
            JoinSource(processed_cells'[Len(processed_cells')].source)
                = JoinSource(CellAt(current_cell_index).source) ]_vars

\* C10 as claimed: cleaning the code cell processor's output again changes
\* nothing, for every response of the backend.
C10_Idempotent == fpc = "cleaned twice" => twice = once

\* C10 amended: cleaning the output again changes nothing exactly when the
\* output neither begins nor ends with a fence marker; an output that still
\* begins or ends with one (nested or repeated markers) loses it.
C10_IdempotentUnlessFenced ==
    fpc = "cleaned twice" =>
        (twice = once <=> (~StartsWith(once, Fence) /\ ~EndsWith(once, Fence)))

\* C10 witness: a response wrapped in one leading and one trailing fence
\* marker, cleaned to a non-empty body that a second cleaning leaves alone.
C10_Witness ==
    /\ fpc = "cleaned twice"
    /\ StartsWith(resp, Fence)
    /\ EndsWith(resp, Fence)
    /\ once # <<>>
    /\ twice = once

\* C11: when the annotate response is a code block, an opening fence that is
\* generic or carries any language tag, the body, and a closing fence, the
\* source stored for the cell is the body alone, trimmed: no fence marker and
\* no language tag is left in it.
C11_AnyFenceStripped == fpc = "cleaned" => once = Strip(arg.body)

\* C12 (as stated): for the markdown cell "# Title", blank, "Hello world",
\* blank, "![pic](img.png)", when the image cannot be resolved, the image
\* section's output is its original line followed by a translation block and
\* no description block, and each of the two text sections is followed by its
\* translation block.
C12_ImageSectionTranslated ==
    (MdDone /\ MdIn = ExampleText /\ CountCalls(calls, "resolve", FALSE) = 1) =>
        /\ Len(MdOut) = 15
        /\ SubSeq(MdOut, 1, 3) = << <<"hs", "x">>, <<>>, TranslationLabel >>
        /\ SubSeq(MdOut, 5, 8) = << <<>>, <<"x", "sp", "x">>, <<>>, TranslationLabel >>
        /\ SubSeq(MdOut, 10, 13) = << <<>>, <<"img">>, <<>>, TranslationLabel >>
        /\ MdOut[15] = <<>>
        /\ CountLine(MdOut, DescriptionLabel) = 0

\* C12 (amended): for the same cell and the same failure, the image section's
\* output is its original line alone, with neither a description block nor a
\* translation block, and each of the two text sections is followed by its
\* translation block (the label and then the backend's text or, when the
\* request failed, the section's own text).
C12_ImageSectionLeftAlone ==
    (MdDone /\ MdIn = ExampleText /\ CountCalls(calls, "resolve", FALSE) = 1) =>
        /\ Len(MdOut) = 12
        /\ SubSeq(MdOut, 1, 3) = << <<"hs", "x">>, <<>>, TranslationLabel >>
        /\ MdOut[4] \in { <<"t">>, <<"hs", "x">> }
        /\ SubSeq(MdOut, 5, 8) = << <<>>, <<"x", "sp", "x">>, <<>>, TranslationLabel >>
        /\ MdOut[9] \in { <<"t">>, <<"x", "sp", "x">> }
        /\ SubSeq(MdOut, 10, 12) = << <<>>, <<"img">>, <<>> >>
        /\ Len(calls) = 3
        /\ CountCalls(calls, "translate", TRUE) + CountCalls(calls, "translate", FALSE) = 2

C12_Witness ==
    /\ MdDone
    /\ MdIn = ExampleText
    /\ calls = << [op |-> "translate", ok |-> TRUE],
                  [op |-> "translate", ok |-> TRUE],
                  [op |-> "resolve", ok |-> FALSE] >>
    /\ MdOut[12] = <<>>

\* C13: a markdown cell with no image reference and no translatable prose
\* (every non-blank line starts with '!') is processed without any call to
\* the resolver or the backend, and its new source holds no translation
\* label, no description label and no backend text: it is the cell's
\* non-blank lines, in order, with blank separator lines between them.
C13_NothingToTranslate ==
    (/\ MdDone
     /\ CountImages(MdIn) = 0
     /\ \A i \in 1..Len(SplitNL(MdIn)) :
           Strip(SplitNL(MdIn)[i]) = <<>> \/ StartsWith(SplitNL(MdIn)[i], <<"bang">>))
    => /\ calls = <<>>
       /\ CountLine(MdOut, TranslationLabel) = 0
       /\ CountLine(MdOut, DescriptionLabel) = 0
       /\ NonBlank(MdOut) = NonBlank(SplitNL(MdIn))
       /\ \A i \in 1..Len(MdOut) :
             MdOut[i] = <<>> \/ \E k \in 1..Len(SplitNL(MdIn)) : MdOut[i] = SplitNL(MdIn)[k]

C13_Witness ==
    /\ MdDone
    /\ MdIn = <<"bang", "x", "nl", "bang">>
    /\ MdOut = << <<"bang", "x">>, <<"bang">>, <<>> >>
    /\ calls = <<>>

\* C14: when the translate request fails for a section of a markdown cell,
\* the translation is left out for that section only: the new source has a
\* translation label for each section whose request succeeded and none for a
\* section whose request failed, and the later sections are still sent for
\* translation.
C14_FailedTranslationSkipped ==
    (MdDone /\ CountCalls(calls, "translate", FALSE) > 0) =>
        CountLine(MdOut, TranslationLabel) = CountCalls(calls, "translate", TRUE)

\* C15: when resolving or describing one image of a section fails, that image
\* alone is skipped: the new source has a description label for each image
\* that was resolved and described and none for an image whose resolution or
\* description failed, and the section's translation is still requested.
C15_FailedImageSkipped ==
    (MdDone /\ CountCalls(calls, "resolve", FALSE) + CountCalls(calls, "describe", FALSE) > 0) =>
        /\ CountLine(MdOut, DescriptionLabel) = CountCalls(calls, "describe", TRUE)
        /\ CountCalls(calls, "translate", TRUE) + CountCalls(calls, "translate", FALSE)
              = Cardinality({ j \in 1..Len(Sections(MdIn)) :
                                \E i \in 1..Len(Sections(MdIn)[j]) :
                                    /\ Strip(Sections(MdIn)[j][i]) # <<>>
                                    /\ Sections(MdIn)[j][i][1] \notin {"bang", "img"} })

\* C16: when the router finds an unsupported cell at the current index, it
\* consumes the whole run of consecutive unsupported cells within that one
\* routing decision: when the decision returns, the index is at a markdown or
\* code cell or equals the cell count, and no unsupported cell is left to a
\* step of its own.
C16_RunConsumedAtOnce ==
    [][(/\ pc = "route"
        /\ error_message = None
        /\ current_cell_index < total_cells
        /\ notebook_content[current_cell_index + 1].cell_type
              \notin {"markdown", "code"})
       => /\ pc' # "skip_unsupported_cell"
          /\ \/ current_cell_index' >= total_cells'
             \/ notebook_content'[current_cell_index' + 1].cell_type
                   \in {"markdown", "code"}]_vars

\* C17: for a document made only of unsupported cells, no request is made to
\* the resolver or the backend, the run ends through rebuild_notebook, and the
\* output written holds every input cell unchanged, as many cells as the
\* input.
C17_UnsupportedOnly ==
    (/\ file_status = "ok"
     /\ \A i \in 1..Len(file_cells) : file_cells[i].cell_type = "raw")
    => /\ calls = <<>>
       /\ Finished =>
             /\ pc = "END"
             /\ error_message \in {None, <<"Error saving notebook">>}
             /\ error_message = None => output_file = WrittenFile(file_cells)

\* C18: no step changes the document that was loaded, and every cell
\* produced, in processed_cells and in the output written, differs from the
\* input cell it was made from at most in its source: cell_type and the
\* pass-through fields are the input cell's.
C18_DocumentNotMutated ==
    /\ (file_status = "ok" /\ pc # "load_and_parse_notebook") =>
           notebook_content = file_cells
    /\ \A k \in 1..Len(processed_cells) :
           \E i \in 1..Len(file_cells) :
               [processed_cells[k] EXCEPT !.source = file_cells[i].source]
                   = file_cells[i]
    /\ \A k \in 1..Len(output_file.cells) :
           \E i \in 1..Len(file_cells) :
               [output_file.cells[k] EXCEPT !.source = file_cells[i].source]
                   = file_cells[i]

C18_Witness ==
    /\ pc = "END"
    /\ output_file.written
    /\ notebook_content = file_cells
    /\ Len(file_cells) = 2
    /\ \A k \in 1..2 :
           /\ Len(output_file.cells) = 2
           /\ output_file.cells[k].id = k
           /\ output_file.cells[k].cell_type = file_cells[k].cell_type
           /\ output_file.cells[k].source # file_cells[k].source

\* C19 (as stated): main returns 0 exactly when the run ended with no error
\* recorded and the output was written, and 1 in every other case.
C19_ZeroIffWritten ==
    exit_code # NoExit =>
        /\ exit_code \in {0, 1}
        /\ exit_code = 0 <=>
              (pc = "END" /\ error_message = None /\ output_file.written)

\* C19 (amended): without --check-config, main returns 0 exactly when the
\* workflow ended with no error recorded and the output was written, and 1
\* otherwise (no input path, missing input, wrong suffix, invalid
\* configuration, refused overwrite, recorded error, step limit, interrupt);
\* with --check-config it returns 0 exactly when the configuration is valid,
\* and no workflow runs.
C19_ZeroIffWrittenOrConfigChecked ==
    exit_code # NoExit =>
        /\ exit_code \in {0, 1}
        /\ IF cli.check_config
           THEN /\ exit_code = 0 <=> cli.config_ok
                /\ pc = "main"
                /\ ~output_file.written
           ELSE /\ exit_code = 0 <=>
                      (pc = "END" /\ error_message = None /\ output_file.written)
                /\ (\/ ~cli.has_path
                    \/ file_status = "missing"
                    \/ cli.suffix \notin {".ipynb", ".IPYNB"}
                    \/ ~cli.config_ok
                    \/ (cli.out_exists /\ cli.answer \in {"n", ""})
                    \/ error_message # None
                    \/ pc \in {"RAISED", "INTERRUPTED"}) => exit_code = 1

C19_Witness ==
    /\ exit_code = 0
    /\ ~cli.check_config
    /\ ~cli.out_exists
    /\ pc = "END"
    /\ output_file.written
    /\ Len(output_file.cells) = 2

\* C20 (as stated): when the output path exists, the workflow starts only if
\* the answer to the overwrite prompt is "y" (in either case of the letter);
\* every other answer makes main return 1 with no workflow step taken and
\* nothing written.
C20_OnlyY ==
    [][(/\ pc = "main"
        /\ exit_code = NoExit
        /\ ~cli.check_config
        /\ cli.has_path
        /\ file_status # "missing"
        /\ cli.suffix \in {".ipynb", ".IPYNB"}
        /\ cli.config_ok
        /\ cli.out_exists)
       => IF cli'.answer \in {"y", "Y"}
          THEN pc' = "load_and_parse_notebook" /\ exit_code' = NoExit
          ELSE /\ pc' = "main"
               /\ exit_code' = 1
               /\ steps' = 0
               /\ output_file' = NoFile]_vars

\* C20 (amended): when the output path exists, the workflow starts only if
\* the answer to the overwrite prompt, lower-cased, is "y" or "yes"; every
\* other answer makes main return 1 with no workflow step taken and nothing
\* written.
C20_OnlyYOrYes ==
    [][(/\ pc = "main"
        /\ exit_code = NoExit
        /\ ~cli.check_config
        /\ cli.has_path
        /\ file_status # "missing"
        /\ cli.suffix \in {".ipynb", ".IPYNB"}
        /\ cli.config_ok
        /\ cli.out_exists)
       => IF cli'.answer \in {"y", "Y", "yes", "YES"}
          THEN pc' = "load_and_parse_notebook" /\ exit_code' = NoExit
          ELSE /\ pc' = "main"
               /\ exit_code' = 1
               /\ steps' = 0
               /\ output_file' = NoFile]_vars

C20_Witness ==
    /\ cli.out_exists
    /\ cli.answer = "YES"
    /\ pc = "END"
    /\ output_file.written
    /\ exit_code = 0

\* C21: image resolution is first match wins: a reference with the
\* embedded-data prefix is decoded with no network and no filesystem access,
\* whether or not decoding succeeds; an http:// or https:// reference is
\* fetched with no filesystem access; any other reference is looked up as
\* given and, only if it is absent there and the notebook's path is known,
\* relative to the notebook's directory, where a file present resolves.
C21_FirstMatchWins ==
    fpc = "resolved" =>
        /\ arg.scheme = "data" =>
              \A i \in 1..Len(once.accesses) : once.accesses[i] = "decode"
        /\ arg.scheme \in {"http", "https"} =>
              /\ once.accesses = <<"network">>
              /\ once.ok = arg.net_ok
        /\ arg.scheme = "path" =>
              /\ once.accesses \in { <<"given">>, <<"given", "relative">> }
              /\ once.accesses = <<"given", "relative">>
                    <=> (arg.given = "absent" /\ arg.input_path)
              /\ arg.given = "file" => once.ok
              /\ (/\ arg.given = "absent"
                  /\ arg.input_path
                  /\ ~arg.absolute
                  /\ arg.relative = "file") => once.ok

C21_Witness ==
    /\ fpc = "resolved"
    /\ arg.scheme = "path"
    /\ arg.given = "absent"
    /\ arg.relative = "file"
    /\ once = [ok |-> TRUE, accesses |-> <<"given", "relative">>]

\* C22: the label lookup ignores the casing of the language name over the
\* ten languages of the table, any other target language gets the English
\* labels "Translation" and "Image Description", and in every case the
\* target language string given at start is what the translate, describe and
\* annotate calls receive, unchanged.
C22_LabelsAndLanguage ==
    /\ once # <<>> =>
          /\ once.translate_arg = arg
          /\ once.describe_arg = arg
          /\ IF arg.name \in DOMAIN translation_labels
             THEN /\ once.translation_label = translation_labels[arg.name]
                  /\ once.description_label = description_labels[arg.name]
             ELSE /\ once.translation_label = "Translation"
                  /\ once.description_label = "Image Description"
    /\ twice # <<>> => twice.annotate_arg = arg

C22_Witness ==
    /\ arg = [name |-> "chinese", casing |-> "UPPER"]
    /\ once # <<>>
    /\ once.translation_label = "Fanyi"
    /\ once.description_label = "Tupian shuoming"
    /\ twice # <<>>

\* C23: a markdown or code cell whose source is empty (no lines, or the empty
\* string) is passed through: the processor appends it with its source
\* content unchanged, makes no call to the backend for it, and advances the
\* index by one.
C23_EmptyCellPassedThrough ==
    [][(/\ pc \in {"process_markdown_cell", "process_code_cell"}
        /\ pc' = "route"
        /\ current_cell_index < Len(notebook_content)
        /\ notebook_content[current_cell_index + 1].source \in
              { [list |-> FALSE, items |-> << <<>> >>],
                [list |-> TRUE, items |-> <<>>] })
       => /\ Len(processed_cells') = Len(processed_cells) + 1
          /\ SubSeq(processed_cells', 1, Len(processed_cells)) = processed_cells
          /\ processed_cells'[Len(processed_cells')].source \in
                { [list |-> FALSE, items |-> << <<>> >>],
                  [list |-> TRUE, items |-> <<>>] }
          /\ calls' = <<>>
          /\ current_cell_index' = current_cell_index + 1]_vars

\* C24: each invocation of the markdown or the code processor either appends
\* exactly one cell to processed_cells and advances current_cell_index by
\* exactly one, recording no error, or records an error and changes neither
\* processed_cells nor the index.
C24_AppendAndAdvanceTogether ==
    [][(pc \in {"process_markdown_cell", "process_code_cell"} /\ pc' = "route")
       => \/ /\ Len(processed_cells') = Len(processed_cells) + 1
             /\ SubSeq(processed_cells', 1, Len(processed_cells)) = processed_cells
             /\ current_cell_index' = current_cell_index + 1
             /\ error_message' = error_message
          \/ /\ error_message' # None
             /\ processed_cells' = processed_cells
             /\ current_cell_index' = current_cell_index]_vars

C24_Witness ==
    /\ pc = "route"
    /\ steps = 3
    /\ error_message = None
    /\ Len(processed_cells) = 2
    /\ current_cell_index = 2
    /\ processed_cells[1].cell_type = "code"
    /\ processed_cells[2].cell_type = "markdown"
    /\ calls # <<>>

\* C25: the segmentation of a markdown cell partitions its non-blank lines
\* into sections in the original order: no section is empty, no section holds
\* a blank (whitespace-only) line, a line beginning with '#' is always the
\* first line of its section, and the sections concatenated are exactly the
\* cell's non-blank lines in order.
C25_SectionsPartitionLines ==
    MdDone =>
        /\ \A j \in 1..Len(Sections(MdIn)) :
              /\ Sections(MdIn)[j] # <<>>
              /\ \A i \in 1..Len(Sections(MdIn)[j]) :
                    /\ \E k \in 1..Len(Sections(MdIn)[j][i]) :
                          Sections(MdIn)[j][i][k] \notin {"sp", "nl"}
                    /\ Sections(MdIn)[j][i][1] = "hs" => i = 1
        /\ JoinEmpty(Sections(MdIn)) = NonBlank(SplitNL(MdIn))

C25_Witness ==
    /\ MdDone
    /\ MdIn = <<"x", "nl", "hs", "x">>
    /\ Sections(MdIn) = << << <<"x">> >>, << <<"hs", "x">> >> >>
    /\ MdOut[1] = <<"x">>

\* The lines a markdown cell's output must show, given its sections and the
\* log of the calls made for it, when every section is written as: its lines,
\* one description block per image resolved and described (each image's
\* resolve call before its describe call, images in match order), one
\* translation block fed by one translate call on the whole section text if
\* the section has a line not starting with '!', one blank line.  AnyLine
\* stands for a line of backend text; a log that does not fit gives NoLine.
AnyLine == <<"?">>

NoLine == <<"no such line">>

RECURSIVE ImageShape(_, _)
ImageShape(n, log) ==
    IF n = 0 THEN [shape |-> <<>>, rest |-> log]
    ELSE IF log = <<>> \/ log[1].op # "resolve"
    THEN [shape |-> <<NoLine>>, rest |-> <<>>]
    ELSE IF ~log[1].ok
    THEN ImageShape(n - 1, Tail(log))
    ELSE IF Len(log) < 2 \/ log[2].op # "describe"
    THEN [shape |-> <<NoLine>>, rest |-> <<>>]
    ELSE LET r == ImageShape(n - 1, Tail(Tail(log))) IN
         [shape |-> (IF log[2].ok
                     THEN << <<>>, DescriptionLabel, AnyLine >>
                     ELSE <<>>) \o r.shape,
          rest |-> r.rest]

SectionShape(section, log) ==
    LET im == ImageShape(CountImages(JoinNL(section)), log)
        prose == \E i \in 1..Len(section) :
                     section[i] # <<>> /\ section[i][1] \notin {"bang", "img"}
    IN  IF ~prose
        THEN [shape |-> section \o im.shape \o << <<>> >>, rest |-> im.rest]
        ELSE IF im.rest = <<>> \/ im.rest[1].op # "translate"
        THEN [shape |-> <<NoLine>>, rest |-> <<>>]
        ELSE [shape |-> section \o im.shape
                        \o << <<>>, TranslationLabel,
                              IF im.rest[1].ok THEN AnyLine ELSE JoinNL(section) >>
                        \o << <<>> >>,
              rest |-> Tail(im.rest)]

RECURSIVE CellShape(_, _)
CellShape(sections, log) ==
    IF sections = <<>>
    THEN IF log = <<>> THEN <<>> ELSE <<NoLine>>
    ELSE LET s == SectionShape(Head(sections), log) IN
         s.shape \o CellShape(Tail(sections), s.rest)

Fits(lines, shape) ==
    /\ Len(lines) = Len(shape)
    /\ \A i \in 1..Len(lines) : shape[i] = AnyLine \/ shape[i] = lines[i]

\* C26: calls and output blocks follow document order: the sections of a
\* cell are written in order, and each section is written as its original
\* lines, then one description block per successfully handled image in match
\* order (resolve before describe for each), then the translation block if
\* the section has a line not starting with '!', then one blank line, with
\* translate called at most once per section, on the full section text; the
\* calls of one cell are all made within that cell's step.
C26_DocumentOrder ==
    MdDone => Fits(MdOut, CellShape(Sections(MdIn), calls))

\* C27: a processor node is entered only when the cell at current_cell_index
\* exists and has the type the processor expects, also when the router has
\* just copied an unsupported cell and routed on the cell after it; so the
\* errors "Cell index out of range" and "Expected ... cell, got ..." never
\* occur, and total_cells is the number of cells of the loaded document
\* whenever the router or a processor reads it.
C27_ProcessorGetsItsCell ==
    /\ pc = "process_markdown_cell" =>
          /\ current_cell_index < Len(notebook_content)
          /\ notebook_content[current_cell_index + 1].cell_type = "markdown"
    /\ pc = "process_code_cell" =>
          /\ current_cell_index < Len(notebook_content)
          /\ notebook_content[current_cell_index + 1].cell_type = "code"
    /\ error_message # None =>
          error_message[1] \notin { "Cell index out of range",
                                    "Expected markdown cell, got",
                                    "Expected code cell, got" }
    /\ (pc \in {"route", "process_markdown_cell", "process_code_cell"}
        /\ error_message = None) => total_cells = Len(notebook_content)

\* C28: a routing decision changes the pipeline state only when the cell at
\* the current index is of an unsupported type, and then it appends exactly
\* one copy of that cell and advances the index by exactly one; when it ends
\* the run for a recorded error, goes to rebuild for index >= cell count, or
\* dispatches the markdown or code cell at the index, it leaves the index,
\* processed_cells and error_message unchanged.
C28_RouterFrame ==
    [][(pc = "route" /\ pc' # "route")
       => IF /\ error_message = None
             /\ current_cell_index < total_cells
             /\ notebook_content[current_cell_index + 1].cell_type
                   \notin {"markdown", "code"}
          THEN /\ processed_cells' =
                     Append(processed_cells, notebook_content[current_cell_index + 1])
               /\ current_cell_index' = current_cell_index + 1
               /\ error_message' = error_message
          ELSE /\ processed_cells' = processed_cells
               /\ current_cell_index' = current_cell_index
               /\ error_message' = error_message]_vars

\* C29: the markdown processor's output source round-trips through the input
\* normalisation: joining its elements with no separator, as a list source is
\* joined on input, and splitting on newlines gives back exactly the lines the
\* processor produced.
C29_OutputRoundTrips ==
    MdDone =>
        /\ processed_cells[1].source.list
        /\ SplitNL(JoinEmpty(processed_cells[1].source.items))
              = processed_cells[1].source.items

====
